---- MODULE Spec2Model ----
(***************************************************************************)
(* A model of const-push's ConstVec<T, CAP>: a fixed-capacity vector whose *)
(* mutators take the container by value and return the new container.      *)
(* T is modelled as an owned, non-Copy resource: every value the caller    *)
(* creates is a new identity, numbered in creation order, so that          *)
(* duplication, loss and finalization of a value are observable.           *)
(***************************************************************************)
EXTENDS Integers, Sequences, FiniteSets, TLC

\* ---------------------------------------------------------------- bounds
\* const generic CAP of ConstVec<T, CAP>
CAP == 3
\* the values of T the caller can create: enough to fill the container
\* and still hold one to offer to a full container
NumItems == CAP + 1

\* ------------------------------------------------------------ value space
\* the bit pattern of a slot that was never written
Uninit == 0
Items == 1..NumItems
\* a bit pattern that is no value the caller ever created
Garbage == NumItems + 1
Vals == Items \cup {Garbage}
Slots == 0..(CAP - 1)
\* index arguments a caller may pass: every slot, and CAP, past the array
IxRange == 0..CAP

\* ------------------------------------------------------------------ state
VARIABLES
    pc,         \* "vec": the caller holds the container; "iter": it was
                \* consumed by into_iter; "dropped"; "aborted" (panic)
    vec,        \* the container the caller holds
    iter,       \* the consuming iterator
    last,       \* the last call: name, argument, result, slots read, the
                \* container it was called on, and for a pop whether the
                \* call before it was a successful push; for from_array also
                \* the source array, the source elements read and the
                \* destination slots written
    moved,      \* the values that were moved into a slot by push
    handed,     \* how many times each value was handed back to the caller
    finalized,  \* how many times each value's destructor was run
    pushed,     \* the values pushed so far, while only push was called
    onlyPush,   \* only push (and read-only calls) happened since new()
    yielded,    \* the values the consuming iterator has yielded, in order
    lay,        \* the element type and target the container is laid out
                \* for, and the addresses computed for one slot
    biter       \* the borrowing iterator: its slice and cursor, what it
                \* has yielded, and what the borrowing iterator before it
                \* over the same container yielded

vars == <<pc, vec, iter, last, moved, handed, finalized, pushed, onlyPush,
          yielded, biter, lay>>

\* ------------------------------------------------------------- container
\* ConstVec::new: len 0, every slot uninitialized
new == [len |-> 0, xs |-> [i \in Slots |-> Uninit]]

len(self) == self.len

is_empty(self) == self.len = 0

\* as_slice whose length is one short of len
as_slice_short(self) == [i \in 1..(self.len - 1) |-> self.xs[i - 1]]

\* the live prefix [0, len) as a sequence
as_slice(self) == [i \in 1..self.len |-> self.xs[i - 1]]

\* the slots as_slice exposes to the caller
as_slice_reads(self) == 0..(self.len - 1)

\* the values held in the live prefix
Live(self) == {self.xs[i] : i \in 0..(self.len - 1)}

\* The result of one call: the container handed back, the element handed
\* back (Uninit when there is none), the slot indices read as a value, and
\* the outcome: "ok", "none" (Option::None), "err" (CapacityError), "panic".
Res(v, r, rd, o) == [vec |-> v, ret |-> r, reads |-> rd, outcome |-> o]

\* copy_item!: ptr::read of slot ix through the address of xs_addr, with no
\* bounds check and without clearing the slot.  The set of values the read
\* can produce: the slot's bits when it was written; when the slot was
\* never written or lies outside the array, the bits of any value created
\* so far or bits that are no value.
copy_item(self, ix) ==
    IF ix \in Slots /\ self.xs[ix] # Uninit THEN {self.xs[ix]}
    ELSE moved \cup {Garbage}

set_len(self, length) == [self EXCEPT !.len = length]

\* get that tests the index against the capacity instead of the length
get_checks_cap(self, ix) ==
    IF ix < CAP
    THEN Res(self, self.xs[ix], {ix}, "ok")
    ELSE Res(self, Uninit, {}, "none")

get(self, ix) ==
    IF ix < self.len
    THEN Res(self, self.xs[ix], {ix}, "ok")
    ELSE Res(self, Uninit, {}, "none")

\* push_unchecked that stores the item but forgets to bump the length
push_unchecked_keeps_len(self, item) ==
    LET written == [self EXCEPT !.xs[self.len] = item]
    IN  set_len(written, self.len)

push_unchecked(self, item) ==
    LET written == [self EXCEPT !.xs[self.len] = item]
    IN  set_len(written, self.len + 1)

\* push that leaves a full container as it is instead of panicking
push_saturates(self, item) ==
    IF self.len < CAP
    THEN Res(push_unchecked(self, item), Uninit, {}, "ok")
    ELSE Res(self, Uninit, {}, "ok")

\* push whose capacity test is off by one
push_le(self, item) ==
    IF self.len <= CAP
    THEN Res(push_unchecked(self, item), Uninit, {}, "ok")
    ELSE Res(self, item, {}, "panic")

push(self, item) ==
    IF self.len < CAP
    THEN Res(push_unchecked(self, item), Uninit, {}, "ok")
    ELSE Res(self, item, {}, "panic")

\* try_push that stores into the last slot before it looks at the capacity
try_push_stores_first(self, item) ==
    IF self.len < CAP
    THEN Res(push_unchecked(self, item), Uninit, {}, "ok")
    ELSE Res([self EXCEPT !.xs[CAP - 1] = item], item, {}, "err")

try_push(self, item) ==
    IF self.len < CAP
    THEN Res(push_unchecked(self, item), Uninit, {}, "ok")
    ELSE Res(self, item, {}, "err")

\* pop that reads the slot at the old length instead of the new one
pop_reads_old_len(self) ==
    IF self.len > 0
    THEN LET new_len == self.len - 1
         IN  {Res(set_len(self, new_len), item, {self.len}, "ok") :
                 item \in copy_item(self, self.len)}
    ELSE {Res(self, Uninit, {}, "panic")}

pop(self) ==
    IF self.len > 0
    THEN LET new_len == self.len - 1
         IN  {Res(set_len(self, new_len), item, {new_len}, "ok") :
                 item \in copy_item(self, new_len)}
    ELSE {Res(self, Uninit, {}, "panic")}

\* try_pop that hands the last element back but keeps the length
try_pop_keeps_len(self) ==
    IF self.len > 0
    THEN LET new_len == self.len - 1
         IN  {Res(self, item, {new_len}, "ok") :
                 item \in copy_item(self, new_len)}
    ELSE {Res(self, Uninit, {}, "none")}

\* try_pop that aborts on an empty container, as pop does
try_pop_panics(self) ==
    IF self.len > 0
    THEN LET new_len == self.len - 1
         IN  {Res(set_len(self, new_len), item, {new_len}, "ok") :
                 item \in copy_item(self, new_len)}
    ELSE {Res(self, Uninit, {}, "panic")}

try_pop(self) ==
    IF self.len > 0
    THEN LET new_len == self.len - 1
         IN  {Res(set_len(self, new_len), item, {new_len}, "ok") :
                 item \in copy_item(self, new_len)}
    ELSE {Res(self, Uninit, {}, "none")}

\* try_swap_remove that shrinks without storing the last element at ix
try_swap_remove_no_store(self, ix) ==
    IF self.len > 0
    THEN IF ix = self.len - 1
         THEN try_pop(self)
         ELSE {IF ix \in Slots
               THEN Res(set_len(self, self.len - 1),
                        removing, {ix, self.len - 1}, "ok")
               ELSE Res(self, removing, {ix, self.len - 1}, "panic") :
                  removing \in copy_item(self, ix)}
    ELSE {Res(self, Uninit, {}, "none")}

\* self.xs[ix] = ... is a bounds-checked array store: it panics for
\* ix >= CAP, after both copy_item! reads have been done.
try_swap_remove(self, ix) ==
    IF self.len > 0
    THEN IF ix = self.len - 1
         THEN try_pop(self)
         ELSE {IF ix \in Slots
               THEN Res(set_len([self EXCEPT !.xs[ix] = swapping], self.len - 1),
                        removing, {ix, self.len - 1}, "ok")
               ELSE Res(self, removing, {ix, self.len - 1}, "panic") :
                  removing \in copy_item(self, ix),
                  swapping \in copy_item(self, self.len - 1)}
    ELSE {Res(self, Uninit, {}, "none")}

\* ----------------------------------------------------------------- layout
\* the largest alignment of T considered is 2^MaxAlignExp bytes
MaxAlignExp == 4
\* the largest size of T considered is MaxSizeFactor times its alignment
MaxSizeFactor == 2
\* size_of::<usize>() on the targets considered
UsizeSizes == {4, 8}
Aligns == {2 ^ e : e \in 0..MaxAlignExp}

\* #[repr(C)]: a field is placed at the first multiple of its alignment at
\* or after the end of the field before it
RoundUp(off, align) == ((off + align - 1) \div align) * align

\* len: usize is the first field
offset_len(t) == 0

\* xs_addr: () has size 0 and alignment 1
offset_xs_addr(t) == RoundUp(offset_len(t) + t.usize, 1)

\* xs: [MaybeUninit<T>; CAP] has the alignment of T
offset_xs(t) == RoundUp(offset_xs_addr(t) + 0, t.align)

\* copy_item! / as_slice: addr_of!(self.xs_addr) as *const T, then .add(ix)
marker_slot(t, ix) == offset_xs_addr(t) + ix * t.size

\* the place of self.xs[ix], which push_unchecked and get use
storage_slot(t, ix) == offset_xs(t) + ix * t.size

\* ------------------------------------------------- construction by array
\* assertions::Leq::<LESSER, GREATER>::CHECK, evaluated when the function
\* that names it is instantiated
Leq_assert(LESSER, GREATER) == LESSER <= GREATER

\* the while loop of copy_from_raw: buffer[ix] = xs.add(ix).read()
RECURSIVE copy_loop(_, _, _, _)
copy_loop(acc, xs, ix, N) ==
    IF ix < N
    THEN copy_loop([buffer |-> [acc.buffer EXCEPT ![ix] = xs[ix + 1]],
                    writes |-> acc.writes \cup {ix},
                    reads |-> acc.reads \cup {ix}], xs, ix + 1, N)
    ELSE acc

\* copy_from_raw that stops one element before the end of the source
copy_from_raw_short(xs, N) ==
    IF Leq_assert(N, CAP)
    THEN copy_loop([buffer |-> new.xs, writes |-> {}, reads |-> {}],
                   xs, 0, N - 1) @@ [outcome |-> "ok"]
    ELSE [buffer |-> new.xs, writes |-> {}, reads |-> {},
          outcome |-> "rejected"]

\* copy_from_raw that fills the buffer first and tests the bound afterwards
copy_from_raw_checks_last(xs, N) ==
    LET M == IF N <= CAP THEN N ELSE CAP
        copy == copy_loop([buffer |-> new.xs, writes |-> {}, reads |-> {}],
                          xs, 0, M)
    IN  copy @@ [outcome |-> IF Leq_assert(N, CAP) THEN "ok" ELSE "rejected"]

\* copy_from_raw::<_, N, CAP>: the bound check, then an uninitialized
\* buffer whose first N slots are read from the source
copy_from_raw(xs, N) ==
    IF Leq_assert(N, CAP)
    THEN copy_loop([buffer |-> new.xs, writes |-> {}, reads |-> {}],
                   xs, 0, N) @@ [outcome |-> "ok"]
    ELSE [buffer |-> new.xs, writes |-> {}, reads |-> {},
          outcome |-> "rejected"]

\* extend_array: copy out of the source array, then mem::forget it, so
\* that the source finalizes none of its values
extend_array(xs) ==
    copy_from_raw(xs, Len(xs)) @@ [src |-> xs, src_finalized |-> {}]

\* ConstVec::from_array: the extended array as storage, len = N
from_array(xs) ==
    LET ext == extend_array(xs)
    IN  ext @@ [vec |-> [len |-> Len(xs), xs |-> ext.buffer]]

\* --------------------------------------------------------- consuming iter
\* IntoIterator for ConstVec: the storage and the length move into the
\* iterator, the cursor starts at 0
into_iter(self) == [xs |-> self.xs, ix |-> 0, len |-> self.len]

\* next that takes the elements from the back of the live prefix
next_from_back(it) ==
    IF it.ix < it.len
    THEN LET at == it.len - 1 - it.ix
         IN  [it |-> [it EXCEPT !.xs[at] = Uninit, !.ix = it.ix + 1],
              ret |-> it.xs[at], reads |-> {at}, outcome |-> "ok"]
    ELSE [it |-> it, ret |-> Uninit, reads |-> {}, outcome |-> "none"]

\* ConstVecIntoIter::next: mem::replace the slot with uninit and yield it
next(it) ==
    IF it.ix < it.len
    THEN [it |-> [it EXCEPT !.xs[it.ix] = Uninit, !.ix = it.ix + 1],
          ret |-> it.xs[it.ix], reads |-> {it.ix}, outcome |-> "ok"]
    ELSE [it |-> it, ret |-> Uninit, reads |-> {}, outcome |-> "none"]

\* size_hint that reports the length and ignores the cursor
size_hint_ignores_cursor(it) ==
    [lower |-> it.len, upper |-> it.len, underflow |-> FALSE]

\* ConstVecIntoIter::size_hint: (len, Some(len)) with len = self.len -
\* self.ix, a usize subtraction that underflows when ix > len
size_hint(it) ==
    IF it.ix <= it.len
    THEN [lower |-> it.len - it.ix, upper |-> it.len - it.ix,
          underflow |-> FALSE]
    ELSE [lower |-> 0, upper |-> 0, underflow |-> TRUE]

\* how many elements next() yields from here until it returns None
RECURSIVE Remaining(_)
Remaining(it) ==
    LET r == next(it)
    IN  IF r.outcome = "ok" THEN 1 + Remaining(r.it) ELSE 0

\* --------------------------------------------------------- borrowing iter
\* IntoIterator for &ConstVec: self.as_slice().iter(), a core::slice::Iter
\* over the slice, with its cursor at the first element
iter_ref(self) == [slice |-> as_slice(self), pos |-> 0]

\* core::slice::Iter::next: the element at the cursor, then advance
slice_next(it) ==
    IF it.pos < Len(it.slice)
    THEN [it |-> [it EXCEPT !.pos = it.pos + 1],
          ret |-> it.slice[it.pos + 1], reads |-> {it.pos}, outcome |-> "ok"]
    ELSE [it |-> it, ret |-> Uninit, reads |-> {}, outcome |-> "none"]

\* ------------------------------------------------------------- drop glue
\* What going out of scope finalizes.  ConstVec and ConstVecIntoIter have
\* no Drop impl and their storage is an array of unions whose only
\* non-trivial field is ManuallyDrop<T>: the glue runs no destructor of T.
drop_vec(self) == {}

drop_iter(it) == {}

\* the source arrays a caller may pass: N values of T, N up to CAP + 1
SourceArray(n) == [i \in 1..n |-> i]

\* the element type of the tests, u32, on a 64-bit target
TestLayout == [usize |-> 8, align |-> 4, size |-> 4, step |-> "type",
               ix |-> 0, marker |-> 0, storage |-> 0]

\* no borrowing iterator exists
NoBorrow == [slice |-> <<>>, pos |-> 0, seen |-> <<>>, first |-> <<>>,
             again |-> FALSE]

Call(op, arg, r, pre) ==
    [op |-> op, arg |-> arg, ret |-> r.ret, outcome |-> r.outcome,
     reads |-> r.reads, pre |-> pre,
     afterPush |-> (op = "pop" /\ last.op = "push" /\ last.outcome = "ok")]

Bump(f, v) == [f EXCEPT ![v] = @ + 1]

\* the value the caller offers next: the first one no container holds yet
\* (a value rejected by try_push stays with the caller and is offered again)
Fresh == Cardinality(moved) + 1

Init ==
    /\ pc = "vec"
    /\ vec = new
    /\ iter = into_iter(new)
    /\ last = [op |-> "new", arg |-> 0, ret |-> Uninit, outcome |-> "ok",
               reads |-> {}, pre |-> new, afterPush |-> FALSE]
    /\ moved = {}
    /\ handed = [v \in Vals |-> 0]
    /\ finalized = [v \in Vals |-> 0]
    /\ pushed = <<>>
    /\ onlyPush = TRUE
    /\ yielded = <<>>
    /\ biter = NoBorrow
    /\ lay = TestLayout

\* a fresh container replaces a dropped or aborted one
New ==
    /\ pc \in {"dropped", "aborted", "rejected"}
    /\ pc' = "vec"
    /\ vec' = new
    /\ iter' = into_iter(new)
    /\ last' = [op |-> "new", arg |-> 0, ret |-> Uninit, outcome |-> "ok",
                reads |-> {}, pre |-> new, afterPush |-> FALSE]
    /\ moved' = {}
    /\ handed' = [v \in Vals |-> 0]
    /\ finalized' = [v \in Vals |-> 0]
    /\ pushed' = <<>>
    /\ onlyPush' = TRUE
    /\ yielded' = <<>>
    /\ UNCHANGED <<biter, lay>>

\* ConstVec::<T, CAP>::from_array(xs) with an array of N values; for
\* N > CAP the build is rejected and no container exists
FromArray ==
    /\ pc \in {"dropped", "aborted", "rejected"}
    /\ \E n \in 0..(CAP + 1) :
         LET r == from_array(SourceArray(n)) IN
         /\ last' = [op |-> "from_array", arg |-> n, ret |-> Uninit,
                     outcome |-> r.outcome, reads |-> {}, pre |-> new,
                     afterPush |-> FALSE, src |-> r.src,
                     src_reads |-> r.reads, writes |-> r.writes]
         /\ IF r.outcome = "ok"
            THEN /\ pc' = "vec"
                 /\ vec' = r.vec
                 /\ moved' = {r.src[i] : i \in DOMAIN r.src}
            ELSE /\ pc' = "rejected"
                 /\ vec' = new
                 /\ moved' = {}
         /\ finalized' = [v \in Vals |->
                IF v \in r.src_finalized THEN 1 ELSE 0]
    /\ iter' = into_iter(new)
    /\ handed' = [v \in Vals |-> 0]
    /\ pushed' = <<>>
    /\ onlyPush' = FALSE
    /\ yielded' = <<>>
    /\ UNCHANGED <<biter, lay>>

\* push(item) with a value the caller owns.  On a full container it
\* panics: unwinding drops the argument item, and self by its drop glue.
Push ==
    /\ pc = "vec"
    /\ Fresh \in Items
    /\ LET item == Fresh
           r == push(vec, item) IN
         /\ last' = Call("push", item, r, vec)
         /\ IF r.outcome = "ok"
            THEN /\ vec' = r.vec
                 /\ pc' = "vec"
                 /\ moved' = moved \cup {item}
                 /\ pushed' = IF onlyPush THEN Append(pushed, item) ELSE pushed
                 /\ UNCHANGED finalized
            ELSE /\ pc' = "aborted"
                 /\ finalized' = [v \in Vals |->
                        finalized[v] + (IF v = item THEN 1 ELSE 0)
                                     + (IF v \in drop_vec(vec) THEN 1 ELSE 0)]
                 /\ UNCHANGED <<vec, moved, pushed>>
    /\ UNCHANGED <<iter, handed, onlyPush, yielded, biter, lay>>

\* try_push(item); on Err the caller takes vector and item back out of
\* the CapacityError
TryPush ==
    /\ pc = "vec"
    /\ Fresh \in Items
    /\ LET item == Fresh
           r == try_push(vec, item) IN
         /\ last' = Call("try_push", item, r, vec)
         /\ vec' = r.vec
         /\ moved' = IF r.outcome = "ok" THEN moved \cup {item} ELSE moved
    /\ pushed' = <<>>
    /\ onlyPush' = FALSE
    /\ UNCHANGED <<pc, iter, handed, finalized, yielded, biter, lay>>

\* the three removals share their bookkeeping: the element returned is
\* handed to the caller; on a panic, unwinding drops the local that holds
\* the element read so far and self by its drop glue
Removal(op, arg, r) ==
    /\ last' = Call(op, arg, r, vec)
    /\ pushed' = <<>>
    /\ onlyPush' = FALSE
    /\ IF r.outcome = "panic"
       THEN /\ pc' = "aborted"
            /\ finalized' = [v \in Vals |->
                   finalized[v] + (IF v = r.ret THEN 1 ELSE 0)
                                + (IF v \in drop_vec(vec) THEN 1 ELSE 0)]
            /\ UNCHANGED <<vec, handed>>
       ELSE /\ pc' = "vec"
            /\ vec' = r.vec
            /\ handed' = IF r.outcome = "ok" THEN Bump(handed, r.ret) ELSE handed
            /\ UNCHANGED finalized
    /\ UNCHANGED <<iter, moved, yielded, biter, lay>>

Pop ==
    /\ pc = "vec"
    /\ \E r \in pop(vec) : Removal("pop", 0, r)

TryPop ==
    /\ pc = "vec"
    /\ \E r \in try_pop(vec) : Removal("try_pop", 0, r)

TrySwapRemove ==
    /\ pc = "vec"
    /\ \E ix \in IxRange : \E r \in try_swap_remove(vec, ix) :
         Removal("try_swap_remove", ix, r)

Get ==
    /\ pc = "vec"
    /\ \E ix \in IxRange :
         last' = Call("get", ix, get(vec, ix), vec)
    /\ UNCHANGED <<pc, vec, iter, moved, handed, finalized, pushed, onlyPush,
                   yielded, biter, lay>>

AsSlice ==
    /\ pc = "vec"
    /\ last' = Call("as_slice", 0,
                    Res(vec, Uninit, as_slice_reads(vec), "ok"), vec)
    /\ UNCHANGED <<pc, vec, iter, moved, handed, finalized, pushed, onlyPush,
                   yielded, biter, lay>>

\* the container goes out of scope
DropVec ==
    /\ pc = "vec"
    /\ pc' = "dropped"
    /\ last' = Call("drop", 0, Res(vec, Uninit, {}, "ok"), vec)
    /\ finalized' = [v \in Vals |->
           finalized[v] + (IF v \in drop_vec(vec) THEN 1 ELSE 0)]
    /\ UNCHANGED <<vec, iter, moved, handed, pushed, onlyPush, yielded,
                   biter, lay>>

IntoIter ==
    /\ pc = "vec"
    /\ pc' = "iter"
    /\ iter' = into_iter(vec)
    /\ last' = Call("into_iter", 0, Res(vec, Uninit, {}, "ok"), vec)
    /\ pushed' = <<>>
    /\ onlyPush' = FALSE
    /\ yielded' = <<>>
    /\ UNCHANGED <<biter, lay>>
    /\ UNCHANGED <<vec, moved, handed, finalized>>

IterNext ==
    /\ pc = "iter"
    /\ LET r == next(iter) IN
         /\ iter' = r.it
         /\ last' = Call("next", iter.ix,
                         Res(vec, r.ret, r.reads, r.outcome), vec)
         /\ handed' = IF r.outcome = "ok" THEN Bump(handed, r.ret) ELSE handed
         /\ yielded' = IF r.outcome = "ok" THEN Append(yielded, r.ret)
                                           ELSE yielded
    /\ UNCHANGED <<pc, vec, moved, finalized, pushed, onlyPush, biter, lay>>

\* (&vec).into_iter(): the container is borrowed until the iterator is
\* let go
IterRef ==
    /\ pc = "vec"
    /\ pc' = "borrow"
    /\ biter' = iter_ref(vec) @@ [seen |-> <<>>, first |-> <<>>, again |-> FALSE]
    /\ last' = Call("iter", 0, Res(vec, Uninit, as_slice_reads(vec), "ok"), vec)
    /\ UNCHANGED <<vec, iter, moved, handed, finalized, pushed, onlyPush,
                   yielded, lay>>

RefNext ==
    /\ pc = "borrow"
    /\ LET r == slice_next([slice |-> biter.slice, pos |-> biter.pos]) IN
         /\ biter' = [biter EXCEPT !.pos = r.it.pos,
                                   !.seen = IF r.outcome = "ok"
                                            THEN Append(@, r.ret) ELSE @]
         /\ last' = Call("ref_next", biter.pos,
                         Res(vec, r.ret, r.reads, r.outcome), vec)
    /\ UNCHANGED <<pc, vec, iter, moved, handed, finalized, pushed, onlyPush,
                   yielded, lay>>

\* a second borrowing iterator over the same container
IterRefAgain ==
    /\ pc = "borrow"
    /\ ~biter.again
    /\ biter' = iter_ref(vec) @@ [seen |-> <<>>, first |-> biter.seen,
                                  again |-> TRUE]
    /\ last' = Call("iter", 0, Res(vec, Uninit, as_slice_reads(vec), "ok"), vec)
    /\ UNCHANGED <<pc, vec, iter, moved, handed, finalized, pushed, onlyPush,
                   yielded, lay>>

\* the borrowing iterator is let go: the caller may move the container
EndBorrow ==
    /\ pc = "borrow"
    /\ pc' = "vec"
    /\ biter' = NoBorrow
    /\ UNCHANGED <<vec, iter, last, moved, handed, finalized, pushed,
                   onlyPush, yielded, lay>>

SizeHint ==
    /\ pc = "iter"
    /\ LET h == size_hint(iter) IN
         last' = Call("size_hint", iter.ix,
                      Res(vec, h.lower, {},
                          IF h.underflow THEN "panic" ELSE "ok"), vec)
    /\ UNCHANGED <<pc, vec, iter, moved, handed, finalized, pushed, onlyPush,
                   yielded, biter, lay>>

\* the iterator goes out of scope, possibly before it is exhausted
DropIter ==
    /\ pc = "iter"
    /\ pc' = "dropped"
    /\ last' = Call("drop_iter", iter.ix, Res(vec, Uninit, {}, "ok"), vec)
    /\ finalized' = [v \in Vals |->
           finalized[v] + (IF v \in drop_iter(iter) THEN 1 ELSE 0)]
    /\ UNCHANGED <<vec, iter, moved, handed, pushed, onlyPush, yielded,
                   biter, lay>>

Next ==
    \/ New
    \/ FromArray
    \/ Push
    \/ TryPush
    \/ Pop
    \/ TryPop
    \/ TrySwapRemove
    \/ Get
    \/ AsSlice
    \/ DropVec
    \/ IntoIter
    \/ IterNext
    \/ SizeHint
    \/ DropIter
    \/ IterRef
    \/ RefNext
    \/ IterRefAgain
    \/ EndBorrow

Spec == Init /\ [][Next]_vars

\* ------------------------------------------------- the layout on its own
\* ConstVec<T, CAP> is instantiated for an element type and a target
ChooseLayout ==
    /\ \E u \in UsizeSizes, a \in Aligns, k \in 0..MaxSizeFactor :
         lay' = [usize |-> u, align |-> a, size |-> k * a, step |-> "type",
                 ix |-> 0, marker |-> 0, storage |-> 0]
    /\ UNCHANGED <<pc, vec, iter, last, moved, handed, finalized, pushed,
                   onlyPush, yielded, biter>>

\* the two addresses the code uses for slot ix, relative to the container
SlotAddress ==
    /\ \E ix \in Slots :
         lay' = [lay EXCEPT !.step = "addr", !.ix = ix,
                            !.marker = marker_slot(lay, ix),
                            !.storage = storage_slot(lay, ix)]
    /\ UNCHANGED <<pc, vec, iter, last, moved, handed, finalized, pushed,
                   onlyPush, yielded, biter>>

NextLayout ==
    \/ ChooseLayout
    \/ SlotAddress

SpecLayout == Init /\ [][NextLayout]_vars

\* ------------------------------------------------------------ type sanity
TypeOK ==
    /\ pc \in {"vec", "iter", "borrow", "dropped", "aborted", "rejected"}
    /\ vec.len \in 0..CAP
    /\ \A i \in Slots : vec.xs[i] \in Vals \cup {Uninit}
    /\ moved \subseteq Items

\* ------------------------------------------------------------ properties

C3_TryPushFull ==
    (last.op = "try_push" /\ len(last.pre) = CAP) =>
        /\ last.outcome = "err"
        /\ pc = "vec"
        /\ len(vec) = len(last.pre)
        /\ as_slice(vec) = as_slice(last.pre)
        /\ last.ret = last.arg
        /\ last.arg \notin Live(vec)

C3_Witness ==
    /\ last.op = "try_push" /\ last.outcome = "err"
    /\ len(last.pre) = CAP

C5_EmptyRemoval ==
    (last.op \in {"try_pop", "try_swap_remove"} /\ len(last.pre) = 0) =>
        /\ last.outcome = "none"
        /\ last.ret = Uninit
        /\ pc = "vec"
        /\ vec = last.pre
        /\ len(vec) = 0

C5_Witness ==
    /\ last.op = "try_swap_remove" /\ last.arg = CAP
    /\ len(last.pre) = 0
    /\ moved # {}
    /\ last.outcome = "none"

\* C6: every slot read by pop, try_pop, try_swap_remove(i), get(i),
\* as_slice and the iterators targets an index below the length of the
\* container it is called on.
C6_ReadsBelowLen ==
    \A i \in last.reads : i < len(last.pre)

\* C7: every try_push, try_pop and try_swap_remove call either fully
\* succeeds (length updated, the returned element was live and every other
\* live element is kept) or fully fails (same length and live elements).
C7_NoPartialFailure ==
    (last.op \in {"try_push", "try_pop", "try_swap_remove"}) =>
        \/ /\ last.outcome = "ok"
           /\ pc = "vec"
           /\ last.op = "try_push"
           /\ as_slice(vec) = Append(as_slice(last.pre), last.arg)
        \/ /\ last.outcome = "ok"
           /\ pc = "vec"
           /\ last.op # "try_push"
           /\ len(vec) = len(last.pre) - 1
           /\ last.ret \in Live(last.pre)
           /\ Live(vec) = Live(last.pre) \ {last.ret}
        \/ /\ last.outcome \in {"none", "err"}
           /\ pc = "vec"
           /\ as_slice(vec) = as_slice(last.pre)

\* C8: no value is owned twice: each value moved into the container is
\* either in exactly one live slot or was handed back exactly once, and
\* nothing else is ever handed back.
C8_SingleOwner ==
    (pc = "vec") =>
        /\ \A v \in moved :
               Cardinality({i \in Slots : i < len(vec) /\ vec.xs[i] = v})
                   + handed[v] = 1
        /\ \A v \in Vals \ moved : handed[v] = 0

\* C9: when a container is destroyed, every value in a slot below len is
\* finalized exactly once and no other slot is finalized.
C9_DropFinalizesLive ==
    (last.op = "drop") =>
        \A v \in Vals :
            finalized[v] = IF v \in Live(last.pre) THEN 1 ELSE 0

\* C10: when consuming iteration over a container of length k is dropped
\* after j < k steps, the elements at indices j..k-1 are each finalized
\* exactly once and the j elements already yielded are not finalized.
C10_DropIterFinalizesRest ==
    (last.op = "drop_iter" /\ last.arg < len(last.pre)) =>
        \A i \in Slots :
            /\ (last.arg <= i /\ i < len(last.pre)) =>
                   finalized[last.pre.xs[i]] = 1
            /\ (i < last.arg) => finalized[last.pre.xs[i]] = 0

\* C11: consuming iteration over a container of length k yields exactly
\* the k live elements in index order 0..k-1, one per next() call, and
\* every next() call after the k-th returns None.
C11_IntoIterOrder ==
    (pc = "iter") =>
        /\ Len(yielded) <= len(vec)
        /\ \A i \in 1..Len(yielded) : yielded[i] = vec.xs[i - 1]
        /\ (last.op = "next" /\ last.outcome = "ok") =>
               /\ last.ret = vec.xs[Len(yielded) - 1]
               /\ last.arg = Len(yielded) - 1
        /\ (last.op = "next" /\ last.outcome = "none") =>
               /\ Len(yielded) = len(vec)
               /\ last.ret = Uninit
        /\ (last.op = "next" /\ last.arg >= len(vec)) =>
               last.outcome = "none"

C11_Witness ==
    /\ pc = "iter"
    /\ len(vec) = CAP
    /\ Len(yielded) = CAP
    /\ last.op = "next" /\ last.outcome = "none"

\* C12: borrowing iteration yields the elements of the live prefix in
\* index order, one per next() and None after the last, leaves the
\* container as it was, and a second borrowing iteration over the same
\* container yields the same sequence.
C12_IterRefOrder ==
    (pc = "borrow") =>
        /\ Len(biter.seen) = biter.pos
        /\ biter.pos <= len(vec)
        /\ \A i \in 1..Len(biter.seen) : biter.seen[i] = vec.xs[i - 1]
        /\ (last.op = "ref_next" /\ last.outcome = "none") =>
               Len(biter.seen) = len(vec)
        /\ (last.op = "ref_next" /\ last.arg < len(vec)) =>
               last.outcome = "ok"
        /\ vec = last.pre
        /\ biter.again =>
               \A i \in 1..Len(biter.seen) :
                   i <= Len(biter.first) => biter.seen[i] = biter.first[i]

C12_Witness ==
    /\ pc = "borrow"
    /\ biter.again
    /\ Len(biter.first) = CAP
    /\ Len(biter.seen) = CAP
    /\ last.op = "ref_next" /\ last.outcome = "none"

\* C13: get(i) returns Some(reference to the element at index i) when
\* i < len and None when i >= len, and does not change the container.
C13_Get ==
    (last.op = "get") =>
        /\ (last.arg < len(last.pre)) =>
               /\ last.outcome = "ok"
               /\ last.ret = last.pre.xs[last.arg]
               /\ last.reads = {last.arg}
        /\ (last.arg >= len(last.pre)) =>
               /\ last.outcome = "none"
               /\ last.ret = Uninit
               /\ last.reads = {}
        /\ vec = last.pre
        /\ pc = "vec"

C13_Witness ==
    /\ last.op = "get"
    /\ last.arg = 1
    /\ len(last.pre) = 1
    /\ last.pre.xs[1] # Uninit
    /\ last.outcome = "none"

C19_CheckBeforeCopy ==
    (last.op = "from_array") =>
        /\ (last.arg > CAP) =>
               /\ last.outcome = "rejected"
               /\ pc = "rejected"
               /\ last.writes = {}
               /\ last.src_reads = {}
        /\ (last.arg <= CAP) =>
               /\ last.outcome = "ok"
               /\ last.writes = 0..(last.arg - 1)
               /\ last.src_reads = 0..(last.arg - 1)
               /\ \A i \in Slots :
                      (vec.xs[i] = Uninit) <=> (i >= last.arg)

C19_Witness ==
    /\ last.op = "from_array" /\ last.outcome = "rejected"
    /\ last.arg = CAP + 1
    /\ pc = "rejected"

\* C15: push on a container with len = CAP and pop on a container with
\* len = 0 panic: no container and no element is returned.
C15_FatalPreconditions ==
    /\ (last.op = "push" /\ len(last.pre) = CAP) =>
           /\ last.outcome = "panic"
           /\ pc = "aborted"
           /\ last.arg \notin moved
    /\ (last.op = "pop" /\ len(last.pre) = 0) =>
           /\ last.outcome = "panic"
           /\ pc = "aborted"
           /\ last.ret = Uninit
    /\ (last.op \in {"push", "pop"} /\ last.outcome = "panic") =>
           \/ last.op = "push" /\ len(last.pre) = CAP
           \/ last.op = "pop" /\ len(last.pre) = 0

C15_Witness ==
    /\ last.op = "push" /\ last.outcome = "panic"
    /\ len(last.pre) = CAP
    /\ pc = "aborted"

C17_LenBounds ==
    /\ len(vec) \in 0..CAP
    /\ (pc = "vec" /\ last.op \in {"push", "try_push"}) =>
           len(vec) = len(last.pre) + (IF last.outcome = "ok" THEN 1 ELSE 0)
    /\ (pc = "vec" /\ last.op \in {"pop", "try_pop", "try_swap_remove"}) =>
           len(vec) = len(last.pre) - (IF last.outcome = "ok" THEN 1 ELSE 0)
    /\ (pc = "vec" /\ last.op \in {"get", "as_slice", "iter", "ref_next"}) =>
           len(vec) = len(last.pre)
    /\ (last.op = "new") => len(vec) = 0
    /\ (last.op = "from_array" /\ pc = "vec") => len(vec) = last.arg

C17_Witness ==
    /\ pc = "vec"
    /\ last.op = "try_swap_remove" /\ last.outcome = "ok"
    /\ last.arg = 1
    /\ len(last.pre) = 1
    /\ len(vec) = 0

\* C18: for the field order (len, xs_addr, xs) and every element size and
\* alignment, the offset of the marker xs_addr equals the offset of the
\* storage xs, so that marker address + i * sizeof(T) is the address of
\* storage slot i.
C18_MarkerAtStorage ==
    /\ offset_xs_addr(lay) = offset_xs(lay)
    /\ (lay.step = "addr") => lay.marker = lay.storage

\* C20: in every state of a consuming iterator made from a container of
\* length k the cursor satisfies 0 <= ix <= len = k, so size_hint() does
\* not underflow and returns (k - ix, Some(k - ix)), the exact number of
\* elements next() will still yield.
C20_SizeHintExact ==
    (pc = "iter") =>
        /\ iter.len = len(vec)
        /\ 0 <= iter.ix /\ iter.ix <= iter.len
        /\ ~size_hint(iter).underflow
        /\ size_hint(iter).lower = len(vec) - iter.ix
        /\ size_hint(iter).upper = len(vec) - iter.ix
        /\ size_hint(iter).lower = Remaining(iter)
        /\ (last.op = "size_hint") =>
               /\ last.outcome = "ok"
               /\ last.ret = Remaining(iter)
               /\ last.ret + Len(yielded) = len(vec)

C20_Witness ==
    /\ pc = "iter"
    /\ last.op = "size_hint"
    /\ iter.len = CAP
    /\ iter.ix = 1
    /\ last.ret = CAP - 1
====
